---- MODULE Spec2Model ----
(***************************************************************************)
(* Model of github.com/dangersalad/go-ensureinterval (interval.go).        *)
(*                                                                         *)
(* Run(interval, getJobs) is one sequential control loop; processJobs      *)
(* starts one goroutine (runJob) per due job and receives one value from   *)
(* each goroutine's unbuffered channel, in job-list order.  Time is an     *)
(* integer wall clock counted in arbitrary units since the zero time; the  *)
(* environment advances it between any two steps of the program.           *)
(***************************************************************************)
EXTENDS Integers, Sequences, FiniteSets, TLC

\* ------------------------------------------------------------------ bounds
MaxTime     == 5    \* the wall clock stops advancing here (Spec)
MaxInterval == 2    \* Run is called with interval in 1..MaxInterval
MaxM        == 1    \* SetMaxCatchup is called with values in 0..MaxM

\* var maxKetchups = 20
DefaultMaxKetchups == 20

\* type Job struct { Name; Exec; Frequency }: Exec is the environment's
\* choice at the time the action finishes (ExecOk / ExecFail).
Job(n, f) == [Name |-> n, Frequency |-> f]

\* the lists a JobLoader may return
JobLists ==
    { << >>,
      << Job("A", 1) >>,
      << Job("A", 2) >>,
      << Job("A", 1), Job("B", 2) >>,
      << Job("A", 2), Job("B", 3) >> }

\* no list is longer than this
MaxUnits == 2

VARIABLES
    clock,          \* time.Now(), units since the zero time
    maxKetchups,    \* package variable maxKetchups
    interval,       \* Run's parameter
    pc,             \* Run's position
    now,            \* Run: now
    jobs,           \* Run: jobs
    tick,           \* processJobs: now (the boundary it was called with)
    inKetchup,      \* which call site of processJobs is active (line 47 / 53)
    lastElapsed,    \* Run: lastElapsed
    elapsed,        \* Run: elapsed (loop variable of line 51)
    totalInterval,  \* Run: totalInterval (loop variable of line 51)
    units,          \* the runJob goroutines that have not exited
    completes,      \* processJobs: completes (indices into units)
    di,             \* processJobs: position of the receive loop in completes
    errs,           \* processJobs: errs
    result,         \* what Run returned
    sleepTime,      \* Run: sleepTime
    wakeAt,         \* the time at which time.Sleep may return
    \* ---- history (observers, never read by the program)
    rounds,         \* boundaries of the catch-up rounds of this iteration
    loads,          \* loader calls of this iteration
    loaded,         \* what the loader returned in this iteration
    firstFinish,    \* clock - now when the first processJobs returned, or -1
    firstElapsed,   \* lastElapsed as measured at line 50, or -1
    failTick,       \* boundary of the batch in which an action failed, or -1
    slept,          \* time.Sleep was called in this iteration
    batchStart,     \* clock when the running processJobs was called, or -1
    launched,       \* goroutines started in this iteration
    sumElapsed,     \* sum of the lastElapsed values measured in this iteration
    lastBoundary,   \* boundary of the latest processJobs call of Run, or -1
    ceilRead,       \* the ceiling line 57 read when it ended Run, or -1
    setInLoop,      \* SetMaxCatchup was called in the catch-up loop since the
                    \* last ceiling check
    \* ---- memory visibility
    maxOld          \* value of maxKetchups before the latest SetMaxCatchup

vars == << clock, maxKetchups, interval, pc, now, jobs, tick, inKetchup,
           lastElapsed, elapsed, totalInterval, units, completes, di, errs,
           result, sleepTime, wakeAt, rounds, loads, loaded, firstFinish,
           firstElapsed, failTick, slept, batchStart, launched,
           sumElapsed, lastBoundary, ceilRead, setInLoop, maxOld >>

progVars == << interval, pc, now, jobs, tick, inKetchup, lastElapsed, elapsed,
               totalInterval, units, completes, di, errs, result, sleepTime,
               wakeAt >>

histVars == << rounds, loads, loaded, firstFinish, firstElapsed, failTick,
               slept, batchStart, launched >>

\* ------------------------------------------------------------- pure helpers

\* time.Time.Truncate(d): t rounded down to a multiple of d since the zero
\* time; t unchanged when d <= 0.
Truncate(t, d) == IF d <= 0 THEN t ELSE t - (t % d)

\* line 81: now.Truncate(j.Frequency*interval) == now
DueMutNoInterval(t, I, j) == Truncate(t, j.Frequency) = t
Due(t, I, j) == Truncate(t, j.Frequency * I) = t

\* line 51, loop condition: elapsed > totalInterval
LoopCondMutGeq(el, ti) == el >= ti
LoopCond(el, ti) == el > ti

\* line 52: nowKetchup := now.Add(totalInterval)
NowKetchupMutInterval(n, ti, I) == n + I
NowKetchup(n, ti, I) == n + ti

\* line 57: totalInterval > interval*time.Duration(maxKetchups)
CeilingHitMutNever(ti, I, m) == FALSE
CeilingHit(ti, I, m) == ti > I * m

\* line 61: sleepTime := interval - lastElapsed
SleepTimeMutZero(I, le) == 0
SleepTime(I, le) == I - le

\* errors.Wrapf(err, "executing job %s", job.Name)
WrapJobErr(name) == << "executing job", name >>

\* lines 104-107: errStr = fmt.Sprintf("%s, %s", errStr, err) for every err,
\* as the sequence of the pieces of the string
RECURSIVE JoinErrs(_)
JoinErrs(es) ==
    IF Len(es) = 0 THEN << >>
    ELSE JoinErrs(SubSeq(es, 1, Len(es) - 1)) \o << << ", " >>, es[Len(es)] >>

\* lines 100-108: nil when errs is empty, else one error built from all
ProcessResultMutNil(es) == [kind |-> "nil", detail |-> << >>]
ProcessResultMutFirst(es) ==
    IF Len(es) = 0 THEN [kind |-> "nil", detail |-> << >>]
    ELSE [kind |-> "jobs", detail |-> << << ", " >>, es[1] >>]
ProcessResult(es) ==
    IF Len(es) = 0 THEN [kind |-> "nil", detail |-> << >>]
    ELSE [kind |-> "jobs", detail |-> JoinErrs(es)]

NoResult == [kind |-> "running", detail |-> << >>]

Max(a, b) == IF a >= b THEN a ELSE b

\* ---------------------------------------------------------------- initial

Init ==
    /\ clock = 0
    /\ maxKetchups = DefaultMaxKetchups
    /\ interval \in 1..MaxInterval
    /\ pc = "top"
    /\ now = 0
    /\ jobs = << >>
    /\ tick = 0
    /\ inKetchup = FALSE
    /\ lastElapsed = 0
    /\ elapsed = 0
    /\ totalInterval = 0
    /\ units = << >>
    /\ completes = << >>
    /\ di = 1
    /\ errs = << >>
    /\ result = NoResult
    /\ sleepTime = 0
    /\ wakeAt = 0
    /\ rounds = << >>
    /\ loads = 0
    /\ loaded = << >>
    /\ firstFinish = -1
    /\ firstElapsed = -1
    /\ failTick = -1
    /\ slept = FALSE
    /\ batchStart = -1
    /\ launched = 0
    /\ sumElapsed = 0
    /\ lastBoundary = -1
    /\ maxOld = DefaultMaxKetchups
    /\ ceilRead = -1
    /\ setInLoop = FALSE

\* ------------------------------------------------------------ environment

\* Run is in the catch-up loop of lines 51-60
InLoop == pc \in {"proc", "drain", "measureK", "ceiling"} /\ inKetchup

\* The wall clock advances (non-decreasing clock).
Tick ==
    /\ pc # "done"
    /\ clock < MaxTime
    /\ clock' = clock + 1
    /\ UNCHANGED << maxKetchups, progVars, histVars >>
    /\ UNCHANGED << sumElapsed, lastBoundary, maxOld >>
    /\ UNCHANGED << ceilRead, setInLoop >>

\* func SetMaxCatchup(max int) { maxKetchups = max }, callable at any time
\* from any goroutine
SetMaxCatchup(m) ==
    /\ pc # "done"
    /\ maxKetchups # m
    /\ maxKetchups' = m
    /\ UNCHANGED << clock, progVars, rounds, loads, loaded, firstFinish,
                    firstElapsed, failTick, slept, batchStart, launched >>
    /\ maxOld' = maxKetchups
    /\ UNCHANGED << sumElapsed, lastBoundary >>
    /\ setInLoop' = (setInLoop \/ InLoop)
    /\ UNCHANGED ceilRead

\* ------------------------------------------------------------------- Run

\* line 42: now := time.Now().Truncate(interval).  The variables declared in
\* the loop body are new in every iteration.
RunTop ==
    /\ pc = "top"
    /\ now' = Truncate(clock, interval)
    /\ pc' = "load"
    /\ rounds' = << >>
    /\ loads' = 0
    /\ loaded' = << >>
    /\ firstFinish' = -1
    /\ firstElapsed' = -1
    /\ slept' = FALSE
    /\ launched' = 0
    /\ jobs' = << >>
    /\ tick' = 0
    /\ inKetchup' = FALSE
    /\ lastElapsed' = 0
    /\ elapsed' = 0
    /\ totalInterval' = 0
    /\ sleepTime' = 0
    /\ wakeAt' = 0
    /\ UNCHANGED << clock, maxKetchups, interval, units, completes, di, errs,
                    result, failTick, batchStart >>
    /\ sumElapsed' = 0
    /\ UNCHANGED << lastBoundary, maxOld >>
    /\ setInLoop' = FALSE
    /\ UNCHANGED ceilRead

\* lines 43-47: jobs, err := getJobs() with err == nil; processJobs(now, ...)
\* is called next
LoadOk(js) ==
    /\ pc = "load"
    /\ jobs' = js
    /\ tick' = now
    /\ inKetchup' = FALSE
    /\ pc' = "proc"
    /\ loads' = loads + 1
    /\ loaded' = js
    /\ UNCHANGED << clock, maxKetchups, interval, now, lastElapsed, elapsed,
                    totalInterval, units, completes, di, errs, result,
                    sleepTime, wakeAt, rounds, firstFinish, firstElapsed,
                    failTick, slept, batchStart, launched >>
    /\ UNCHANGED << sumElapsed, lastBoundary, maxOld >>
    /\ UNCHANGED << ceilRead, setInLoop >>

\* lines 43-46: getJobs() fails; return errors.Wrap(err, "getting jobs")
LoadFailMutIgnore ==
    /\ pc = "load"
    /\ result' = [kind |-> "load", detail |-> << "getting jobs", "loader error" >>]
    /\ tick' = now
    /\ inKetchup' = FALSE
    /\ pc' = "proc"
    /\ loads' = loads + 1
    /\ UNCHANGED << clock, maxKetchups, interval, now, jobs, lastElapsed,
                    elapsed, totalInterval, units, completes, di, errs,
                    sleepTime, wakeAt, rounds, loaded, firstFinish,
                    firstElapsed, failTick, slept, batchStart,
                    launched >>
    /\ UNCHANGED << sumElapsed, lastBoundary, maxOld >>
    /\ UNCHANGED << ceilRead, setInLoop >>

LoadFail ==
    /\ pc = "load"
    /\ result' = [kind |-> "load", detail |-> << "getting jobs", "loader error" >>]
    /\ pc' = "done"
    /\ loads' = loads + 1
    /\ UNCHANGED << clock, maxKetchups, interval, now, jobs, tick, inKetchup,
                    lastElapsed, elapsed, totalInterval, units, completes, di,
                    errs, sleepTime, wakeAt, rounds, loaded, firstFinish,
                    firstElapsed, failTick, slept, batchStart,
                    launched >>
    /\ UNCHANGED << sumElapsed, lastBoundary, maxOld >>
    /\ UNCHANGED << ceilRead, setInLoop >>

\* ------------------------------------------------------------ processJobs

\* the jobs of js due at t, from position i on, in list order
RECURSIVE DueSeq(_, _, _, _)
DueSeq(t, I, js, i) ==
    IF i > Len(js) THEN << >>
    ELSE (IF Due(t, I, js[i]) THEN << js[i] >> ELSE << >>)
         \o DueSeq(t, I, js, i + 1)

\* a goroutine started by line 85: go runJob(j, interval, complete)
NewUnit(j, t) ==
    [job |-> j, tick |-> t, st |-> "exec", sent |-> 0, failed |-> FALSE]

Live(us) == SelectSeq(us, LAMBDA u : u.st # "exited")

\* lines 78-88: the launch loop.  Goroutines that exited are dropped from
\* units; those still alive stay.
ProcessLaunch ==
    /\ pc = "proc"
    /\ LET old == Live(units)
           due == DueSeq(tick, interval, jobs, 1)
       IN /\ units' = old \o [k \in 1..Len(due) |-> NewUnit(due[k], tick)]
          /\ completes' = [k \in 1..Len(due) |-> Len(old) + k]
          /\ launched' = launched + Len(due)
    /\ di' = 1
    /\ errs' = << >>
    /\ pc' = "drain"
    /\ batchStart' = clock
    /\ rounds' = IF inKetchup THEN Append(rounds, tick) ELSE rounds
    /\ UNCHANGED << clock, maxKetchups, interval, now, jobs, tick, inKetchup,
                    lastElapsed, elapsed, totalInterval, result, sleepTime,
                    wakeAt, loads, loaded, firstFinish, firstElapsed,
                    failTick, slept >>
    /\ lastBoundary' = tick
    /\ UNCHANGED << sumElapsed, maxOld >>
    /\ UNCHANGED << ceilRead, setInLoop >>

\* runJob lines 68-69,74: job.Exec() returned nil; the goroutine is at
\* "complete <- nil"
ExecOkMutNoSend(i) ==
    /\ i \in 1..Len(units)
    /\ units[i].st = "exec"
    /\ units' = [units EXCEPT ![i].st = "exited"]
    /\ UNCHANGED << clock, maxKetchups, interval, pc, now, jobs, tick,
                    inKetchup, lastElapsed, elapsed, totalInterval, completes,
                    di, errs, result, sleepTime, wakeAt, histVars >>
    /\ UNCHANGED << sumElapsed, lastBoundary, maxOld >>
    /\ UNCHANGED << ceilRead, setInLoop >>

ExecOk(i) ==
    /\ i \in 1..Len(units)
    /\ units[i].st = "exec"
    /\ units' = [units EXCEPT ![i].st = "send_nil"]
    /\ UNCHANGED << clock, maxKetchups, interval, pc, now, jobs, tick,
                    inKetchup, lastElapsed, elapsed, totalInterval, completes,
                    di, errs, result, sleepTime, wakeAt, histVars >>
    /\ UNCHANGED << sumElapsed, lastBoundary, maxOld >>
    /\ UNCHANGED << ceilRead, setInLoop >>

\* runJob lines 68-71: job.Exec() returned an error; the goroutine is at
\* "complete <- errors.Wrapf(...)"
ExecFail(i) ==
    /\ i \in 1..Len(units)
    /\ units[i].st = "exec"
    /\ units' = [units EXCEPT ![i].st = "send_err", ![i].failed = TRUE]
    /\ failTick' = units[i].tick
    /\ UNCHANGED << clock, maxKetchups, interval, pc, now, jobs, tick,
                    inKetchup, lastElapsed, elapsed, totalInterval, completes,
                    di, errs, result, sleepTime, wakeAt, rounds, loads,
                    loaded, firstFinish, firstElapsed, slept,
                    batchStart, launched >>
    /\ UNCHANGED << sumElapsed, lastBoundary, maxOld >>
    /\ UNCHANGED << ceilRead, setInLoop >>

\* the receive loop of lines 90-97 has a channel left to receive from
DrainPendingMutFirst(d, cs) == d <= Len(cs) /\ d <= 1
DrainPending(d, cs) == d <= Len(cs)

\* line 91: err := <-c, a rendezvous with the goroutine's send on the
\* unbuffered channel.  After sending the error the goroutine goes on to
\* "complete <- nil" (line 74); after sending nil it returns.
Receive ==
    /\ pc = "drain"
    /\ DrainPending(di, completes)
    /\ LET i == completes[di]
           u == units[i]
       IN /\ u.st \in {"send_err", "send_nil"}
          /\ IF u.st = "send_err"
             THEN /\ errs' = Append(errs, WrapJobErr(u.job.Name))
                  /\ units' = [units EXCEPT ![i].st = "send_nil",
                                            ![i].sent = u.sent + 1]
             ELSE /\ errs' = errs
                  /\ units' = [units EXCEPT ![i].st = "exited",
                                            ![i].sent = u.sent + 1]
    /\ di' = di + 1
    /\ UNCHANGED << clock, maxKetchups, interval, pc, now, jobs, tick,
                    inKetchup, lastElapsed, elapsed, totalInterval, completes,
                    result, sleepTime, wakeAt, histVars >>
    /\ UNCHANGED << sumElapsed, lastBoundary, maxOld >>
    /\ UNCHANGED << ceilRead, setInLoop >>

\* lines 99-108 and the caller's "if err != nil { return err }" (lines 47-49
\* and 53-55).  processJobs' variables end with the call; goroutines that
\* have returned are gone.
ProcessReturn ==
    /\ pc = "drain"
    /\ ~DrainPending(di, completes)
    /\ LET r == ProcessResult(errs)
       IN IF r.kind = "nil"
          THEN /\ pc' = IF inKetchup THEN "measureK" ELSE "measure"
               /\ result' = result
          ELSE /\ pc' = "done"
               /\ result' = r
    /\ units' = Live(units)
    /\ completes' = << >>
    /\ di' = 1
    /\ errs' = << >>
    /\ batchStart' = -1
    /\ firstFinish' = IF inKetchup THEN firstFinish ELSE clock - now
    /\ UNCHANGED << clock, maxKetchups, interval, now, jobs, tick, inKetchup,
                    lastElapsed, elapsed, totalInterval, sleepTime, wakeAt,
                    rounds, loads, loaded, firstElapsed, failTick, slept, launched >>
    /\ UNCHANGED << sumElapsed, lastBoundary, maxOld >>
    /\ UNCHANGED << ceilRead, setInLoop >>

\* -------------------------------------------------- Run: the catch-up loop

\* line 51 condition and line 52, for loop variables el, ti: enter a
\* catch-up round or leave the loop for the sleep
LoopStepMutReload(el, ti) ==
    /\ elapsed' = el
    /\ totalInterval' = ti
    /\ tick' = tick
    /\ inKetchup' = inKetchup
    /\ IF LoopCond(el, ti) THEN pc' = "load" ELSE pc' = "sleep"

LoopStep(el, ti) ==
    /\ elapsed' = el
    /\ totalInterval' = ti
    /\ IF LoopCond(el, ti)
       THEN /\ tick' = NowKetchup(now, ti, interval)
            /\ inKetchup' = TRUE
            /\ pc' = "proc"
       ELSE /\ tick' = tick
            /\ inKetchup' = inKetchup
            /\ pc' = "sleep"

\* line 50: lastElapsed := time.Now().Sub(now); line 51 init and condition
Measure ==
    /\ pc = "measure"
    /\ lastElapsed' = clock - now
    /\ firstElapsed' = clock - now
    /\ LoopStep(clock - now, interval)
    /\ UNCHANGED << clock, maxKetchups, interval, now, jobs, units, completes,
                    di, errs, result, sleepTime, wakeAt, rounds, loads,
                    loaded, firstFinish, failTick, slept, batchStart,
                    launched >>
    /\ sumElapsed' = clock - now
    /\ UNCHANGED << lastBoundary, maxOld >>
    /\ UNCHANGED << ceilRead, setInLoop >>

\* line 56: lastElapsed = time.Now().Sub(nowKetchup)
MeasureK ==
    /\ pc = "measureK"
    /\ lastElapsed' = clock - tick
    /\ pc' = "ceiling"
    /\ UNCHANGED << clock, maxKetchups, interval, now, jobs, tick, inKetchup,
                    elapsed, totalInterval, units, completes, di, errs,
                    result, sleepTime, wakeAt, histVars >>
    /\ sumElapsed' = sumElapsed + (clock - tick)
    /\ UNCHANGED << lastBoundary, maxOld >>
    /\ UNCHANGED << ceilRead, setInLoop >>

\* line 57 reads maxKetchups and line 28 writes it with no synchronisation
\* between the two goroutines: the read returns the value written last or
\* the one before it.
ReadMaxKetchupsMutSnapshot == {maxOld}
ReadMaxKetchups == {maxKetchups, maxOld}

\* line 51, post statement: elapsed+lastElapsed
NextElapsedMutLast(el, le) == le
NextElapsed(el, le) == el + le

\* lines 57-59, then the post statement and the condition of line 51
Ceiling ==
    /\ pc = "ceiling"
    /\ \E m \in ReadMaxKetchups :
          IF CeilingHit(totalInterval, interval, m)
          THEN /\ result' = [kind |-> "maxcatchups", detail |-> << >>]
               /\ pc' = "done"
               /\ ceilRead' = m
               /\ UNCHANGED << elapsed, totalInterval, tick, inKetchup >>
          ELSE /\ result' = result
               /\ ceilRead' = ceilRead
               /\ LoopStep(NextElapsed(elapsed, lastElapsed),
                           totalInterval + interval)
    /\ UNCHANGED << clock, maxKetchups, interval, now, jobs, lastElapsed,
                    units, completes, di, errs, sleepTime, wakeAt, histVars >>
    /\ UNCHANGED << sumElapsed, lastBoundary, maxOld >>
    /\ setInLoop' = FALSE

\* lines 61-62: sleepTime := interval - lastElapsed; time.Sleep(sleepTime).
\* Sleep returns at once for a duration <= 0.
Sleep ==
    /\ pc = "sleep"
    /\ sleepTime' = SleepTime(interval, lastElapsed)
    /\ wakeAt' = clock + Max(SleepTime(interval, lastElapsed), 0)
    /\ pc' = "sleeping"
    /\ slept' = TRUE
    /\ UNCHANGED << clock, maxKetchups, interval, now, jobs, tick, inKetchup,
                    lastElapsed, elapsed, totalInterval, units, completes, di,
                    errs, result, rounds, loads, loaded, firstFinish,
                    firstElapsed, failTick, batchStart, launched >>
    /\ UNCHANGED << sumElapsed, lastBoundary, maxOld >>
    /\ UNCHANGED << ceilRead, setInLoop >>

\* time.Sleep returns, not before the requested duration has passed; the
\* for loop of line 41 starts over
Wake ==
    /\ pc = "sleeping"
    /\ clock >= wakeAt
    /\ pc' = "top"
    /\ UNCHANGED << clock, maxKetchups, interval, now, jobs, tick, inKetchup,
                    lastElapsed, elapsed, totalInterval, units, completes, di,
                    errs, result, sleepTime, wakeAt, histVars >>
    /\ UNCHANGED << sumElapsed, lastBoundary, maxOld >>
    /\ UNCHANGED << ceilRead, setInLoop >>

\* -------------------------------------------------------- specification

Next ==
    \/ Tick
    \/ \E m \in 0..MaxM : SetMaxCatchup(m)
    \/ RunTop
    \/ \E js \in JobLists : LoadOk(js)
    \/ LoadFail
    \/ ProcessLaunch
    \/ \E i \in 1..(2 * MaxUnits) : ExecOk(i)
    \/ \E i \in 1..(2 * MaxUnits) : ExecFail(i)
    \/ Receive
    \/ ProcessReturn
    \/ Measure
    \/ MeasureK
    \/ Ceiling
    \/ Sleep
    \/ Wake

Spec == Init /\ [][Next]_vars

\* processJobs and its goroutines take their steps, and every action
\* returns (the job action contract: an action does not block for ever).
SpecLive ==
    /\ Init
    /\ [][Next]_vars
    /\ WF_vars(\E i \in 1..(2 * MaxUnits) : ExecOk(i) \/ ExecFail(i))
    /\ WF_vars(Receive)
    /\ WF_vars(ProcessReturn)

\* ------------------------------ the hypothesis "every batch takes too long"

\* Room on the clock for MaxM + 2 batches of at most MaxInterval + 2 each.
SlowMaxTime == 3 + (MaxM + 3) * (MaxInterval + 2)

InitSlow ==
    /\ clock \in 0..3
    /\ maxKetchups \in 0..MaxM
    /\ interval \in 1..MaxInterval
    /\ pc = "top"
    /\ now = 0
    /\ jobs = << >>
    /\ tick = 0
    /\ inKetchup = FALSE
    /\ lastElapsed = 0
    /\ elapsed = 0
    /\ totalInterval = 0
    /\ units = << >>
    /\ completes = << >>
    /\ di = 1
    /\ errs = << >>
    /\ result = NoResult
    /\ sleepTime = 0
    /\ wakeAt = 0
    /\ rounds = << >>
    /\ loads = 0
    /\ loaded = << >>
    /\ firstFinish = -1
    /\ firstElapsed = -1
    /\ failTick = -1
    /\ slept = FALSE
    /\ batchStart = -1
    /\ launched = 0
    /\ sumElapsed = 0
    /\ lastBoundary = -1
    /\ maxOld = maxKetchups
    /\ ceilRead = -1
    /\ setInLoop = FALSE

\* Time passes while a batch runs, for at most interval + 2 per batch.
TickSlow ==
    /\ pc = "drain"
    /\ clock - batchStart <= interval + 1
    /\ clock < SlowMaxTime
    /\ clock' = clock + 1
    /\ UNCHANGED << maxKetchups, progVars, histVars >>
    /\ UNCHANGED << sumElapsed, lastBoundary, maxOld >>
    /\ UNCHANGED << ceilRead, setInLoop >>

\* processJobs returns more than one interval after it was called.
ProcessReturnSlow ==
    /\ clock - batchStart > interval
    /\ ProcessReturn

\* Run and its goroutines, every action succeeding, every batch slow.
RunSlow ==
    \/ TickSlow
    \/ RunTop
    \/ \E js \in JobLists : LoadOk(js)
    \/ ProcessLaunch
    \/ \E i \in 1..(2 * MaxUnits) : ExecOk(i)
    \/ Receive
    \/ ProcessReturnSlow
    \/ Measure
    \/ MeasureK
    \/ Ceiling

NextSlow ==
    \/ RunSlow
    \/ \E m \in 0..MaxM : SetMaxCatchup(m)

\* The Go scheduler runs every goroutine that can take a step, and time
\* passes.
SpecSlow == InitSlow /\ [][NextSlow]_vars /\ WF_vars(RunSlow)

\* ================================================================ claims

Executing == { i \in 1..Len(units) : units[i].st = "exec" }

\* C1: when the first processJobs of an iteration has returned nil more than
\* one interval after now, Run is in or has run a catch-up round before it
\* sleeps; the k-th catch-up round of the iteration is called with
\* now + k*interval (in order, each once); and no time.Sleep has been called
\* in the iteration while the loop is running.
C1_CatchUpOrder ==
    /\ \A k \in 1..Len(rounds) : rounds[k] = now + k * interval
    /\ (firstFinish > interval /\ firstElapsed >= 0)
          => (Len(rounds) >= 1 \/ (pc = "proc" /\ inKetchup))
    /\ (pc \in {"proc", "drain", "measure", "measureK", "ceiling"}) => ~slept

C1_Witness ==
    /\ pc = "sleeping"
    /\ firstFinish > interval
    /\ Len(rounds) >= 2
    /\ rounds[2] = now + 2 * interval

\* C2 (as claimed): when Run returns the max-catchups error, the iteration
\* has called processJobs for at most M catch-up rounds, M being the ceiling
\* the check of line 57 compared against.
C2_AtMostMRounds ==
    (pc = "done" /\ result.kind = "maxcatchups") => Len(rounds) <= ceilRead

\* C3: when processJobs has finished its launch loop for boundary tick, the
\* job at position i of the list has a goroutine if and only if tick is a
\* multiple of Frequency * interval since the zero time.
C3_DueIffMultiple ==
    pc = "drain" =>
        \A i \in 1..Len(jobs) :
            (\E k \in 1..Len(completes) : units[completes[k]].job = jobs[i])
            <=> (\E n \in 0..tick : tick = n * (jobs[i].Frequency * interval))

C3_Witness ==
    /\ pc = "drain"
    /\ tick > 0
    /\ Len(jobs) = 2
    /\ Len(completes) = 1
    /\ units[completes[1]].job = jobs[1]

\* C4: once an action of a batch has failed, Run stays in that batch's
\* processJobs until it has returned (no load, launch, catch-up round or
\* sleep follows), and Run's return value is then the batch's error.
C4_FailureStopsRun ==
    failTick >= 0 =>
        /\ pc \in {"drain", "done"}
        /\ tick = failTick
        /\ pc = "done" => result.kind = "jobs"

C4_Witness ==
    /\ failTick >= 0
    /\ pc = "done"
    /\ result.kind = "jobs"
    /\ Len(rounds) >= 1
    /\ failTick = rounds[Len(rounds)]

\* C5: an action is executing only while processJobs is in its receive
\* loop with the action's channel still to be received from: processJobs
\* does not return before every action it launched has finished, also
\* after it has received an error.
C5_WaitsForAll ==
    \A i \in Executing :
        /\ pc = "drain"
        /\ \E k \in di..Len(completes) : completes[k] = i

C5_Witness ==
    /\ pc = "drain"
    /\ Len(errs) >= 1
    /\ Executing # {}

\* C6: all actions that are executing were launched for the boundary of the
\* processJobs call in progress, and processJobs is never called while an
\* action is executing.
C6_OneTickAtATime ==
    /\ \A i \in Executing : units[i].tick = tick
    /\ \A i, j \in Executing : units[i].tick = units[j].tick
    /\ pc = "proc" => Executing = {}

C6_Witness ==
    /\ pc = "drain"
    /\ inKetchup
    /\ Cardinality(Executing) = 2

\* C7: the loader has not been called when an iteration reaches line 43 and
\* has been called exactly once from there to the end of the iteration; the
\* first and every catch-up processJobs of the iteration run on the list
\* that call returned.
C7_LoadOncePerIteration ==
    /\ pc = "load" => (loads = 0 /\ launched = 0)
    /\ pc \in {"proc", "drain", "measure", "measureK", "ceiling", "sleep",
               "sleeping"} => (loads = 1 /\ jobs = loaded)
    /\ pc = "drain" =>
          \A k \in 1..Len(completes) :
              \E i \in 1..Len(loaded) : units[completes[k]].job = loaded[i]

C7_Witness ==
    /\ pc = "drain"
    /\ Len(rounds) >= 2
    /\ Len(completes) >= 1
    /\ loads = 1

\* C8: when the loader has failed, Run has returned the error wrapped with
\* "getting jobs"; the loader was called once in the iteration, no goroutine
\* was started, no catch-up round ran and time.Sleep was not called.
C8_LoadErrorIsFatal ==
    result.kind = "load" =>
        /\ pc = "done"
        /\ result.detail = << "getting jobs", "loader error" >>
        /\ loads = 1
        /\ launched = 0
        /\ rounds = << >>
        /\ ~slept

C8_Witness ==
    /\ result.kind = "load"
    /\ pc = "done"
    /\ now > 0

\* C9: when the elapsed time measured after the first processJobs of an
\* iteration is at most one interval, the iteration runs no catch-up round,
\* goes to the sleep, and sleeps for interval minus that elapsed time.
C9_NoCatchUpWithinInterval ==
    (firstElapsed >= 0 /\ firstElapsed <= interval) =>
        /\ rounds = << >>
        /\ pc \in {"sleep", "sleeping", "top"}
        /\ pc \in {"sleeping", "top"} => sleepTime = interval - firstElapsed

C9_Witness ==
    /\ pc = "sleeping"
    /\ firstElapsed = interval
    /\ sleepTime = 0
    /\ launched >= 1

\* C10: when every batch succeeds and takes longer than one interval, Run
\* eventually returns the max-catchups error.
C10_EventuallyMaxCatchups ==
    <>(pc = "done" /\ result.kind = "maxcatchups")

C10_Witness ==
    /\ pc = "done"
    /\ result.kind = "maxcatchups"
    /\ maxKetchups >= 1
    /\ Len(rounds) = maxKetchups + 1

\* tick is a multiple of the period of job j since the zero time
OnGrid(j) == \E n \in 0..tick : tick = n * (j.Frequency * interval)

\* the receive loop of processJobs is over
Drained == pc = "drain" /\ ~DrainPending(di, completes)

\* positions in completes of the goroutines whose action failed
FailedAt == { k \in 1..Len(completes) : units[completes[k]].failed }

C12_NoBlockedSender ==
    pc # "drain" =>
        \A i \in 1..Len(units) : units[i].st \notin {"send_err", "send_nil"}

\* C13 (as claimed): when processJobs is called for a catch-up boundary, the
\* clock is at or after that boundary.
C13_RoundNotInFuture ==
    (pc = "drain" /\ inKetchup) => batchStart >= tick

\* C14: processJobs has received exactly one value from each goroutine it
\* has passed in the receive loop and none from the others; and, every
\* action returning, a processJobs that was called returns.
C14_DrainTerminates ==
    /\ [](pc = "drain" =>
            \A k \in 1..Len(completes) :
                units[completes[k]].sent = (IF k < di THEN 1 ELSE 0))
    /\ (pc = "drain") ~> (pc # "drain")

C14_Witness ==
    /\ pc = "drain"
    /\ Len(completes) = 2
    /\ di = 1
    /\ units[completes[1]].st = "exec"
    /\ units[completes[2]].st \in {"send_nil", "send_err"}

\* C15: when the receive loop is over, the value processJobs returns is nil
\* exactly when no launched action failed; otherwise it has one entry
\* "executing job <name>" for every launched job whose action failed and no
\* other entry.
C15_AllFailuresReported ==
    Drained =>
        LET r == ProcessResult(errs)
        IN /\ r.kind = "nil" <=> FailedAt = {}
           /\ Len(r.detail) = 2 * Cardinality(FailedAt)
           /\ \A j \in 1..Len(jobs) :
                 (\E p \in 1..Len(r.detail) :
                      r.detail[p] = WrapJobErr(jobs[j].Name))
                 <=> (\E k \in FailedAt : units[completes[k]].job = jobs[j])

C15_Witness ==
    /\ Drained
    /\ Len(completes) = 2
    /\ Cardinality(FailedAt) = 2

\* C16: the duration given to time.Sleep is never negative: at the sleep
\* lastElapsed is at most interval, and less than interval when a catch-up
\* round ran in the iteration.
C16_SleepNotNegative ==
    /\ pc \in {"sleep", "sleeping"} =>
          /\ lastElapsed <= interval
          /\ Len(rounds) >= 1 => lastElapsed < interval
    /\ pc = "sleeping" => sleepTime >= 0

C16_Witness ==
    /\ pc = "sleeping"
    /\ Len(rounds) >= 1
    /\ lastElapsed < 0
    /\ sleepTime > interval

\* C17: every call of processJobs is for a boundary greater than the
\* boundary of the call before it.
C17_BoundariesIncrease ==
    pc = "proc" => tick > lastBoundary

C17_Witness ==
    /\ pc = "proc"
    /\ ~inKetchup
    /\ lastBoundary >= 0
    /\ tick > lastBoundary

\* C18: an iteration that starts before the second boundary after the last
\* one processed has as its boundary the last one processed plus interval.
C18_NoBoundarySkipped ==
    (pc = "load" /\ lastBoundary >= 0 /\ now < lastBoundary + 2 * interval)
        => now = lastBoundary + interval

C18_Witness ==
    /\ pc = "load"
    /\ lastBoundary >= 2 * interval
    /\ now = lastBoundary + interval

C20_NoDueNoWait ==
    (pc = "drain" /\ \A i \in 1..Len(jobs) : ~OnGrid(jobs[i])) =>
        /\ completes = << >>
        /\ Executing = {}
        /\ Drained
        /\ ProcessResult(errs).kind = "nil"

C20_Witness ==
    /\ pc = "drain"
    /\ Len(jobs) = 2
    /\ completes = << >>
    /\ tick > 0

====
